---------------------------- MODULE Spec2Model ----------------------------
(***************************************************************************)
(* VoiceKitService (iOS capture-session orchestration): the listening      *)
(* session, the silence timer that promotes the last partial transcript to *)
(* a final result, the recognition task's callback, and the save/restore   *)
(* of the shared audio session.                                            *)
(*                                                                         *)
(* Swift optionals are modelled as sequences of length 0 (nil) or 1.       *)
(* Transcription texts are sequences of one-character strings.             *)
(* Handlers are operators from a service state (a record of all fields)    *)
(* to the state after the handler has returned, so that a handler calling  *)
(* another handler (the timer closure calling stopRecording) is one step.  *)
(***************************************************************************)
EXTENDS Integers, Sequences, FiniteSets, TLC

VARIABLES
  isListening,            \* VoiceKitService.isListening
  currentOptions,         \* VoiceKitService.currentOptions
  recognitionRequest,     \* optional: id of the request object
  recognitionTask,        \* optional: id of the task object
  lastResultTimer,        \* optional: the Timer object last stored
  lastTranscription,      \* optional text
  originalAudioCategory,  \* optional
  originalAudioMode,      \* optional
  originalAudioOptions,   \* optional
  audioSession,           \* AVAudioSession.sharedInstance(): category, mode, options, active
  tapInstalled,           \* audioEngine.inputNode has a tap on bus 0
  engineRunning,          \* audioEngine is running
  tasks,                  \* the recognition tasks created so far: state and captured options
  scheduled,              \* timers scheduled on the run loop and not yet fired or invalidated
  now,                    \* wall clock, in ms
  events,                 \* delegate calls made by the handler that ran last, in order
  resultCount,            \* history: per task, the result events its timers have emitted
  lastPartial,            \* history: optional, the time and task of the last partialResult event
  crashed,                \* the process was terminated by an uncaught exception
  appended,               \* number of buffers appended to recognition requests
  mainQueue,              \* blocks the tap callback has dispatched to the main queue, in order
  tapCall,                \* optional: the call of the tap block that the audio thread is
                          \* running, its buffer, its session and the line it has reached
  staleOptions,           \* optional: what currentOptions held before the main-thread
                          \* handler that ran last cleared it, while the tap call in
                          \* progress may still read it from before that write
  available,              \* useVoice: the available state
  listening,              \* useVoice: the listening state
  transcript,             \* useVoice: the transcript state
  enablePartialResults,   \* useVoice: the optional prop, as the last render received it
  subscribed,             \* useVoice: optional, the enablePartialResults that the
                          \* handlePartialResult added as a listener closes over
  everEnabled,            \* history: some render received enablePartialResults true
  finalResults,           \* history: the texts of the result events the hook has received
  hookCall,               \* history: the hook handler that ran last and its argument
  call                    \* history: the handler that ran last, what it was given, whether
                          \* the session was listening when it began and whether it threw

vars == << isListening, currentOptions, recognitionRequest, recognitionTask,
           lastResultTimer, lastTranscription, originalAudioCategory,
           originalAudioMode, originalAudioOptions, audioSession, tapInstalled,
           engineRunning, tasks, scheduled, now, events, resultCount,
           lastPartial, crashed, appended, mainQueue, tapCall, staleOptions,
           available,
           listening,
           transcript, enablePartialResults, subscribed, everEnabled,
           finalResults, hookCall, call >>

\* the state of the useVoice hook
hookVars == << available, listening, transcript, enablePartialResults,
               subscribed, everEnabled, finalResults, hookCall >>

---------------------------------------------------------------------------
(* Bounds of the exploration *)

MaxSessions == 2
MaxTime == 1000
MaxBuffers == 2

---------------------------------------------------------------------------
(* Values *)

None == << >>
Some(x) == << x >>

DefaultSilenceTimeoutMs == 1000
ShortSilenceTimeoutMs == DefaultSilenceTimeoutMs \div 2

\* the step of the clock
TickMs == ShortSilenceTimeoutMs
NoSpeechCode == 1110
OtherErrorCode == 216

\* (options["frameLength"] as? NSNumber)?.intValue ?? 512
DefaultFrameLength == 512
ShortFrameLength == 2

\* Int16.max, Int16.min
Int16Max == 32767
Int16Min == 0 - 32768

\* float samples are written in tenths: 10 is the amplitude 1.0
AmplitudeScale == 10

\* the buffers the hardware delivers to the tap (channel 0, in tenths)
Buffers == { << 10, 0 - 10, 0 >>, << 12, 0 - 12, 5 >> }

Modes == {"single", "continuous", "continuous-and-stop"}

\* options dictionaries a caller can pass: each key present or absent
OptionSets ==
  [ mode : {None, Some("continuous-and-stop")}, silenceTimeoutMs : {None},
    enableAudioBuffer : {None}, frameLength : {None} ]
  \cup [ mode : {Some("single"), Some("continuous")},
         silenceTimeoutMs : {Some(ShortSilenceTimeoutMs)},
         enableAudioBuffer : {None}, frameLength : {None} ]

\* the options of the sessions that observe (or do not observe) audio frames
AudioOptionSets ==
  [ mode : {Some("single")}, silenceTimeoutMs : {Some(ShortSilenceTimeoutMs)},
    enableAudioBuffer : {None, Some(FALSE), Some(TRUE)}, frameLength : {None} ]
  \cup [ mode : {Some("single")}, silenceTimeoutMs : {Some(ShortSilenceTimeoutMs)},
         enableAudioBuffer : {Some(TRUE)}, frameLength : {Some(ShortFrameLength)} ]

\* [:]
EmptyOptions ==
  [ mode |-> None, silenceTimeoutMs |-> None, enableAudioBuffer |-> None,
    frameLength |-> None ]

\* A string is the sequence of its Unicode scalar values: "h" is << 104 >>,
\* "hello" is << 104, 101, 108, 108, 111 >>, "\r " is << 13, 32 >>.
\* bestTranscription.formattedString values delivered by the recognizer
Texts == { << 13, 32 >>, << 104 >>, << 104, 101, 108, 108, 111 >> }

\* CharacterSet.whitespacesAndNewlines: the scalars of general category Z*
\* (Zs: U+0020, U+00A0, U+1680, U+2000..U+200A, U+202F, U+205F, U+3000;
\* Zl: U+2028; Zp: U+2029), U+0009..U+000D and U+0085
Whitespace ==
  (9 .. 13) \cup {32, 133, 160, 5760} \cup (8192 .. 8202)
  \cup {8232, 8233, 8239, 8287, 12288}

\* errors the recognition task can report
NoSpeechError == [ domain |-> "kAFAssistantErrorDomain", code |-> NoSpeechCode ]
OtherError == [ domain |-> "kAFAssistantErrorDomain", code |-> OtherErrorCode ]
Errors == { NoSpeechError, OtherError }

\* shared audio-session configurations the application may have before a session
InitialAudioSessions ==
  { [ category |-> "soloAmbient", mode |-> "default", options |-> "none", active |-> FALSE ] }

\* what the recognizer passes to a task's result handler: a result or an error
PlainCallbacks ==
  [ result : {Some(t) : t \in Texts}, error : {None} ]
  \cup [ result : {None}, error : {Some(e) : e \in Errors} ]

\* the same, and an error together with the result recognized so far
Callbacks ==
  PlainCallbacks \cup [ result : {Some(<< 104 >>)}, error : {Some(e) : e \in Errors} ]


\* where startRecording can throw
FailPoints == {"none", "setCategory", "setActive", "engineStart"}

\* installing a tap on a bus that already has one: AVAudioEngine either
\* replaces it or raises an Objective-C exception that ends the process
DoubleTapOutcomes == {"replace", "raise"}

\* the environment of the service: which call of startRecording may throw,
\* how the setCategory call of restoreAudioSession may end (TRUE: it returns,
\* FALSE: it throws), what the recognizer may pass to a result handler, and
\* the states of a task in which its handler may still be called (a
\* cancelled task may deliver the one call that was in flight)
Environment ==
  [ failPoints |-> FailPoints, restoreOutcomes |-> BOOLEAN,
    callbacks |-> Callbacks, deliversFrom |-> {"running", "canceled"},
    options |-> OptionSets ]

\* the environment in which no system call throws, a callback carries either
\* a result or an error, and a cancelled task calls its handler no more
PlainEnvironment ==
  [ failPoints |-> {"none"}, restoreOutcomes |-> {TRUE},
    callbacks |-> PlainCallbacks, deliversFrom |-> {"running"},
    options |-> OptionSets ]

\* the plain environment, but a failing stream may hand over the result
\* recognized so far together with its error
StreamEnvironment ==
  [ failPoints |-> {"none"}, restoreOutcomes |-> {TRUE},
    callbacks |-> PlainCallbacks
                    \cup { [ result |-> Some(<< 104 >>), error |-> Some(OtherError) ] },
    deliversFrom |-> {"running"}, options |-> OptionSets ]

\* the plain environment, but a task cancelled by stopRecording may still
\* deliver the call that was in flight
LateEnvironment ==
  [ failPoints |-> {"none"}, restoreOutcomes |-> {TRUE},
    callbacks |-> PlainCallbacks, deliversFrom |-> {"running", "canceled"},
    options |-> OptionSets ]

\* the plain environment with sessions that differ in their audio options
\* and a recognizer that reports partial results only
AudioEnvironment ==
  [ failPoints |-> {"none"}, restoreOutcomes |-> {TRUE},
    callbacks |-> { [ result |-> Some(<< 104 >>), error |-> None ],
                    [ result |-> None, error |-> Some(OtherError) ] },
    deliversFrom |-> {"running"}, options |-> AudioOptionSets ]

---------------------------------------------------------------------------
(* Delegate events *)

ListeningStateChanged(b) == [ type |-> "listeningStateChanged", isListening |-> b ]
PartialResult(text, sid) == [ type |-> "partialResult", text |-> text, sid |-> sid ]
Result(text, sid) == [ type |-> "result", text |-> text, sid |-> sid ]
ErrorEvent(e) == [ type |-> "error", error |-> e ]
\* onAudioBuffer(frame.samples); the buffer the samples were converted from
\* and the session whose tap received it are carried along as history
AudioBuffer(frame) ==
  [ type |-> "audioBuffer", samples |-> frame.samples, buffer |-> frame.buffer,
    sid |-> frame.sid ]

Emit(s, e) == [ s EXCEPT !.events = Append(@, e) ]

---------------------------------------------------------------------------
(* Pure helpers *)

RECURSIVE DropLeading(_)
DropLeading(t) ==
  IF t # << >> /\ Head(t) \in Whitespace THEN DropLeading(Tail(t)) ELSE t

RECURSIVE DropTrailing(_)
DropTrailing(t) ==
  IF t # << >> /\ t[Len(t)] \in Whitespace
  THEN DropTrailing(SubSeq(t, 1, Len(t) - 1)) ELSE t

\* String.trimmingCharacters(in: .whitespacesAndNewlines)
trimmingCharacters(t) == DropTrailing(DropLeading(t))

\* lastTranscription?.trimmingCharacters(...).isEmpty ?? true
IsBlank(opt) == IF opt = None THEN TRUE ELSE trimmingCharacters(opt[1]) = << >>

\* options["silenceTimeoutMs"] as? Double ?? 1000.0
SilenceTimeoutMs(options) ==
  IF options.silenceTimeoutMs = None THEN DefaultSilenceTimeoutMs
  ELSE options.silenceTimeoutMs[1]

\* if let mode = options["mode"] as? String, mode == "single" || mode == "continuous-and-stop" || mode == nil
StopsOnFinal(options) ==
  /\ options.mode # None
  /\ options.mode[1] \in {"single", "continuous-and-stop"}

\* error.domain == "kAFAssistantErrorDomain" && error.code == 1110
IsNoSpeech(error) ==
  error.domain = "kAFAssistantErrorDomain" /\ error.code = NoSpeechCode

\* currentOptions["enableAudioBuffer"] as? Bool, enableAudioBuffer
EnablesAudioBuffer(options) == options.enableAudioBuffer = Some(TRUE)

\* (currentOptions["frameLength"] as? NSNumber)?.intValue ?? 512
FrameLength(options) ==
  IF options.frameLength = None THEN DefaultFrameLength ELSE options.frameLength[1]

Min(a, b) == IF a < b THEN a ELSE b
Max(a, b) == IF a > b THEN a ELSE b

\* Int16(x) of a floating-point x (here in tenths): rounds toward zero
Int16(x) ==
  IF x >= 0 THEN x \div AmplitudeScale ELSE 0 - ((0 - x) \div AmplitudeScale)

\* Int16(max(-32768, min(32767, floatSample * 32767)))
pcm16Value(floatSample) ==
  Int16(Max(Int16Min * AmplitudeScale,
            Min(Int16Max * AmplitudeScale, floatSample * Int16Max)))

\* the conversion loop over the first min(buffer.frameLength, frameLength) samples
pcm16Samples(buffer, frameLength) ==
  [ i \in 1 .. Min(Len(buffer), frameLength) |-> pcm16Value(buffer[i]) ]

\* recognitionTask?.cancel()
CancelTask(ts, ref) ==
  IF ref = None THEN ts
  ELSE [ ts EXCEPT ![ref[1]].state = IF @ = "running" THEN "canceled" ELSE @ ]

\* lastResultTimer?.invalidate()
Invalidate(sch, ref) == IF ref = None THEN sch ELSE sch \ { ref[1] }

---------------------------------------------------------------------------
(* The service state as one record *)

Cur ==
  [ isListening |-> isListening, currentOptions |-> currentOptions,
    recognitionRequest |-> recognitionRequest, recognitionTask |-> recognitionTask,
    lastResultTimer |-> lastResultTimer, lastTranscription |-> lastTranscription,
    originalAudioCategory |-> originalAudioCategory,
    originalAudioMode |-> originalAudioMode,
    originalAudioOptions |-> originalAudioOptions,
    audioSession |-> audioSession, tapInstalled |-> tapInstalled,
    engineRunning |-> engineRunning, tasks |-> tasks, scheduled |-> scheduled,
    now |-> now, events |-> << >>, resultCount |-> resultCount,
    lastPartial |-> lastPartial, crashed |-> crashed, appended |-> appended,
    mainQueue |-> mainQueue, tapCall |-> tapCall, staleOptions |-> None,
    threw |-> FALSE ]

\* the same for a step of the audio thread: no main-thread handler has run
\* since the last one, whose write the tap call may still not have seen
CurOnAudioThread == [ Cur EXCEPT !.staleOptions = staleOptions ]

NoCallback == [ result |-> None, error |-> None ]

Becomes(s, op, cb, ok) ==
  /\ isListening' = s.isListening
  /\ currentOptions' = s.currentOptions
  /\ recognitionRequest' = s.recognitionRequest
  /\ recognitionTask' = s.recognitionTask
  /\ lastResultTimer' = s.lastResultTimer
  /\ lastTranscription' = s.lastTranscription
  /\ originalAudioCategory' = s.originalAudioCategory
  /\ originalAudioMode' = s.originalAudioMode
  /\ originalAudioOptions' = s.originalAudioOptions
  /\ audioSession' = s.audioSession
  /\ tapInstalled' = s.tapInstalled
  /\ engineRunning' = s.engineRunning
  /\ tasks' = s.tasks
  /\ scheduled' = s.scheduled
  /\ now' = s.now
  /\ events' = s.events
  /\ resultCount' = s.resultCount
  /\ lastPartial' = s.lastPartial
  /\ crashed' = s.crashed
  /\ appended' = s.appended
  /\ tapCall' = s.tapCall
  /\ staleOptions' = s.staleOptions
  /\ mainQueue' = s.mainQueue
  /\ UNCHANGED hookVars
  /\ call' = [ op |-> op, cb |-> cb, restoreOk |-> ok,
                wasListening |-> isListening, threw |-> s.threw ]

---------------------------------------------------------------------------
(* Handlers *)

\* isListening's didSet observer
SetIsListening(s, b) ==
  Emit([ s EXCEPT !.isListening = b ], ListeningStateChanged(b))

\* restoreAudioSession(); ok: whether setCategory succeeds
restoreAudioSession(s, ok) ==
  IF \/ s.originalAudioCategory = None
     \/ s.originalAudioMode = None
     \/ s.originalAudioOptions = None
  THEN s
  ELSE [ s EXCEPT
           !.audioSession =
              IF ok THEN [ @ EXCEPT !.category = s.originalAudioCategory[1],
                                    !.mode = s.originalAudioMode[1],
                                    !.options = s.originalAudioOptions[1] ]
              ELSE @,
           !.originalAudioCategory = None,
           !.originalAudioMode = None,
           !.originalAudioOptions = None ]

\* stopRecording and handleError set recognitionRequest = nil several
\* statements before currentOptions = [:] (lines 203 and 207, 173 and 176): a
\* tap call running on the audio thread meanwhile can find the request gone
\* and the options still there. The handler is one step here, so the options
\* it overwrote are kept for the reads of the tap call in progress.
OverwrittenOptions(s) ==
  IF s.tapCall = None THEN None ELSE Some(s.currentOptions)

\* stopRecording() past its guard: stop the engine, remove the tap, end and
\* cancel the recognition, clear the flag and the options, restore the routing
stopSession(s, ok) ==
  LET s1 == [ s EXCEPT !.engineRunning = FALSE,
                       !.tapInstalled = FALSE,
                       !.recognitionRequest = None,
                       !.tasks = CancelTask(@, s.recognitionTask),
                       !.recognitionTask = None ]
      s2 == SetIsListening(s1, FALSE)
      s3 == [ s2 EXCEPT !.currentOptions = EmptyOptions,
                        !.staleOptions = OverwrittenOptions(s) ]
  IN  restoreAudioSession(s3, ok)

\* a faulty variant of stopRecording, without its isListening guard (C9 must reject it)
stopRecordingUnguarded(s, ok) == stopSession(s, ok)

\* stopRecording()
stopRecording(s, ok) ==
  IF ~ s.isListening
  THEN Emit(s, ErrorEvent("invalidState"))
  ELSE stopSession(s, ok)

\* a faulty variant of handleError that reports every error, "no speech detected" included (C10 must reject it)
handleErrorReportsAll(s, error, ok) ==
  LET s1 == [ s EXCEPT !.scheduled = Invalidate(@, s.lastResultTimer),
                       !.lastResultTimer = None,
                       !.lastTranscription = None,
                       !.engineRunning = FALSE,
                       !.tapInstalled = FALSE,
                       !.recognitionRequest = None,
                       !.recognitionTask = None ]
      s2 == SetIsListening(s1, FALSE)
      s3 == [ s2 EXCEPT !.currentOptions = EmptyOptions,
                        !.staleOptions = OverwrittenOptions(s) ]
  IN  Emit(restoreAudioSession(s3, ok), ErrorEvent("unknown"))

\* handleError(_:)
handleError(s, error, ok) ==
  LET s1 == [ s EXCEPT !.scheduled = Invalidate(@, s.lastResultTimer),
                       !.lastResultTimer = None,
                       !.lastTranscription = None,
                       !.engineRunning = FALSE,
                       !.tapInstalled = FALSE,
                       !.recognitionRequest = None,
                       !.recognitionTask = None ]
      s2 == SetIsListening(s1, FALSE)
      s3 == [ s2 EXCEPT !.currentOptions = EmptyOptions,
                        !.staleOptions = OverwrittenOptions(s) ]
      s4 == restoreAudioSession(s3, ok)
  IN  IF IsNoSpeech(error) THEN s4
      ELSE Emit(s4, ErrorEvent("unknown"))

\* the closure of lastResultTimer, created by task sid's handler with the
\* options of the startRecording call that created the task
timerClosure(s, options, sid, ok) ==
  IF s.lastTranscription = None THEN s
  ELSE LET finalTranscription == s.lastTranscription[1]
           s1 == IF StopsOnFinal(options) THEN stopRecording(s, ok) ELSE s
       IN  [ Emit(s1, Result(finalTranscription, sid)) EXCEPT !.resultCount[sid] = @ + 1 ]

\* the deadline of a timer scheduled at time t
FireDate(t, options) == t + SilenceTimeoutMs(options)

\* a faulty variant of resetTimer that leaves a pending timer as it is, no debounce (C4 must reject it)
resetTimerKeepsPending(s, options, sid) ==
  LET timer == [ deadline |-> FireDate(s.now, options), options |-> options, sid |-> sid ]
  IN  IF s.lastResultTimer # None /\ s.lastResultTimer[1] \in s.scheduled THEN s
      ELSE [ s EXCEPT !.scheduled = @ \cup { timer }, !.lastResultTimer = Some(timer) ]

\* a faulty variant of resetTimer that schedules the new timer without invalidating the stored one (C17 must reject it)
resetTimerStacks(s, options, sid) ==
  LET timer == [ deadline |-> FireDate(s.now, options), options |-> options, sid |-> sid ]
  IN  [ s EXCEPT !.scheduled = @ \cup { timer }, !.lastResultTimer = Some(timer) ]

\* "Reset the timer": invalidate the stored timer, schedule and store a new one
resetTimer(s, options, sid) ==
  LET timer == [ deadline |-> FireDate(s.now, options), options |-> options, sid |-> sid ]
  IN  [ s EXCEPT !.scheduled = Invalidate(@, s.lastResultTimer) \cup { timer },
                 !.lastResultTimer = Some(timer) ]

\* the result handler of the recognition task sid; result: optional text,
\* error: optional error
resultHandler(s, sid, result, error, ok) ==
  LET options == s.tasks[sid].options
      s1 == IF error # None THEN handleError(s, error[1], ok) ELSE s
  IN  IF result = None THEN s1
      ELSE LET s2 == [ s1 EXCEPT !.lastTranscription = Some(result[1]) ]
           IN  IF IsBlank(s2.lastTranscription) THEN s2
               ELSE resetTimer([ Emit(s2, PartialResult(s2.lastTranscription[1], sid))
                                   EXCEPT !.lastPartial = Some([ at |-> s2.now, sid |-> sid ]) ],
                               options, sid)

\* the audio engine calls the tap block with a hardware buffer, on its own
\* thread: the call starts at line 135
tapBegin(s, buffer) ==
  [ s EXCEPT !.tapCall = Some([ pc |-> "append", buffer |-> buffer,
                                sid |-> s.recognitionTask[1] ]) ]

\* the field that the next line of the tap call reads has been written by the
\* main thread since the call began: the tap block reads recognitionRequest
\* and currentOptions without any synchronisation
Racing(s) ==
  LET c == s.tapCall[1]
  IN  IF c.pc = "append" THEN s.recognitionRequest # Some(c.sid)
      ELSE s.currentOptions # s.tasks[c.sid].options

\* what an unsynchronised read can do: return the value the field now has;
\* return the options from before the write of a main-thread handler that
\* had not reached that write when the read was made; or, when a write raced
\* with it, end the process
ReadOutcomes(s) ==
  {"read"}
  \cup (IF s.tapCall[1].pc # "append" /\ s.staleOptions # None THEN {"stale"} ELSE {})
  \cup (IF Racing(s) THEN {"crash"} ELSE {})

\* the tap installed on the input node, one line of it at a time:
\*   "append"             self?.recognitionRequest?.append(buffer)
\*   "enableAudioBuffer"  if let enableAudioBuffer = self?.currentOptions[...]
\*   "frameLength"        read currentOptions["frameLength"], convert the
\*                        buffer, dispatch the delivery to the main queue
\* A read that has seen the handler's write is followed by reads that see it.
tapCallback(s, outcome) ==
  LET c == s.tapCall[1]
      options == IF outcome = "stale" THEN s.staleOptions[1] ELSE s.currentOptions
      seen == IF outcome = "stale" THEN s.staleOptions ELSE None
      frame == [ samples |-> pcm16Samples(c.buffer, FrameLength(options)),
                 buffer |-> c.buffer, sid |-> c.sid ]
  IN  IF outcome = "crash" THEN [ s EXCEPT !.crashed = TRUE ]
      ELSE IF c.pc = "append"
      THEN [ s EXCEPT !.appended = IF s.recognitionRequest = None THEN @ ELSE @ + 1,
                      !.tapCall = Some([ c EXCEPT !.pc = "enableAudioBuffer" ]) ]
      ELSE IF c.pc = "enableAudioBuffer"
      THEN IF EnablesAudioBuffer(options)
           THEN [ s EXCEPT !.tapCall = Some([ c EXCEPT !.pc = "frameLength" ]),
                           !.staleOptions = seen ]
           ELSE [ s EXCEPT !.tapCall = None, !.staleOptions = None ]
      ELSE [ s EXCEPT !.mainQueue = Append(@, frame), !.tapCall = None,
                      !.staleOptions = None ]

\* the block dispatched by the tap callback: delegate?.onAudioBuffer(pcm16Samples)
deliverFrame(s) ==
  Emit([ s EXCEPT !.mainQueue = Tail(@) ], AudioBuffer(Head(s.mainQueue)))

\* startRecording(options:) past its guard; fail: the call that throws; dup:
\* what the audio engine does when a tap is already installed on the bus
startSession(s, options, fail, dup) ==
  LET sid == Len(s.tasks) + 1
      \* store the options, cancel any ongoing task, save the audio session
      s1 == [ s EXCEPT !.currentOptions = options,
                       !.tasks = CancelTask(@, s.recognitionTask),
                       !.recognitionTask = None,
                       !.originalAudioCategory = Some(s.audioSession.category),
                       !.originalAudioMode = Some(s.audioSession.mode),
                       !.originalAudioOptions = Some(s.audioSession.options) ]
      \* try audioSession.setCategory(.record, mode: .measurement, options: .duckOthers)
      s2 == [ s1 EXCEPT !.audioSession.category = "record",
                        !.audioSession.mode = "measurement",
                        !.audioSession.options = "duckOthers" ]
      \* try audioSession.setActive(true); the request; the task
      s3 == [ s2 EXCEPT !.audioSession.active = TRUE,
                        !.recognitionRequest = Some(sid),
                        !.tasks = Append(@, [ state |-> "running", options |-> options ]),
                        !.resultCount = Append(@, 0),
                        !.recognitionTask = Some(sid) ]
      \* inputNode.installTap
      s4 == [ s3 EXCEPT !.tapInstalled = TRUE ]
      \* try audioEngine.start(); isListening = true
      s5 == SetIsListening([ s4 EXCEPT !.engineRunning = TRUE ], TRUE)
  IN  IF fail = "setCategory" THEN [ s1 EXCEPT !.threw = TRUE ]
      ELSE IF fail = "setActive" THEN [ s2 EXCEPT !.threw = TRUE ]
      ELSE IF s3.tapInstalled /\ dup = "raise" THEN [ s3 EXCEPT !.crashed = TRUE ]
      ELSE IF fail = "engineStart" THEN [ s4 EXCEPT !.threw = TRUE ]
      ELSE s5

\* a faulty variant of startRecording that stores the options before its isListening guard (C1 must reject it)
startRecordingStoresFirst(s, options, fail, dup) ==
  IF s.isListening
  THEN Emit([ s EXCEPT !.currentOptions = options ], ErrorEvent("invalidState"))
  ELSE startSession(s, options, fail, dup)

\* startRecording(options:)
startRecording(s, options, fail, dup) ==
  IF s.isListening
  THEN Emit(s, ErrorEvent("invalidState"))
  ELSE startSession(s, options, fail, dup)

---------------------------------------------------------------------------
(* Specification *)

\* useVoice(props) after its first render: the useState initial values, and
\* no listener added yet (the effect has not run)
HookMounted(enable) ==
  /\ available = FALSE
  /\ listening = FALSE
  /\ transcript = << >>
  /\ enablePartialResults = enable
  /\ subscribed = None
  /\ everEnabled = (enable = Some(TRUE))
  /\ finalResults = {}
  /\ hookCall = [ op |-> "mount", text |-> None ]

\* the service after init()
ServiceConstructed ==
  /\ isListening = FALSE
  /\ currentOptions = EmptyOptions
  /\ recognitionRequest = None
  /\ recognitionTask = None
  /\ lastResultTimer = None
  /\ lastTranscription = None
  /\ originalAudioCategory = None
  /\ originalAudioMode = None
  /\ originalAudioOptions = None
  /\ audioSession \in InitialAudioSessions
  /\ tapInstalled = FALSE
  /\ engineRunning = FALSE
  /\ tasks = << >>
  /\ scheduled = {}
  /\ now = 0
  /\ events = << >>
  /\ resultCount = << >>
  /\ lastPartial = None
  /\ crashed = FALSE
  /\ appended = 0
  /\ mainQueue = << >>
  /\ tapCall = None
  /\ staleOptions = None
  /\ call = [ op |-> "init", cb |-> NoCallback, restoreOk |-> TRUE,
               wasListening |-> FALSE, threw |-> FALSE ]

Init == ServiceConstructed /\ HookMounted(None)

\* whether the setCategory call of restoreAudioSession succeeds: a choice only
\* when the handler reaches that call
RestoreOutcomes(env, restores) ==
  IF restores /\ originalAudioCategory # None THEN env.restoreOutcomes ELSE {TRUE}

\* nothing runs once the process has ended
Alive == ~ crashed

\* a caller invokes startRecording(options:)
StartRecording(env) ==
  /\ Alive
  /\ isListening \/ Len(tasks) < MaxSessions
  /\ \E options \in env.options, fail \in env.failPoints,
        dup \in IF tapInstalled THEN DoubleTapOutcomes ELSE {"replace"} :
       Becomes(startRecording(Cur, options, fail, dup), "startRecording", NoCallback, TRUE)

\* a caller invokes stopRecording()
StopRecording(env) ==
  /\ Alive
  /\ \E ok \in RestoreOutcomes(env, isListening) :
       Becomes(stopRecording(Cur, ok), "stopRecording", NoCallback, ok)

\* the recognizer calls the result handler of a task: a running task calls
\* it any number of times until it reports an error; a cancelled task may
\* still deliver the one call that was in flight when it was cancelled (if
\* the environment delivers from cancelled tasks)
RecognitionCallback(env) ==
  /\ Alive
  /\ \E sid \in DOMAIN tasks :
       /\ tasks[sid].state \in env.deliversFrom
       /\ \E cb \in env.callbacks :
          \E ok \in RestoreOutcomes(env, cb.error # None) :
            /\ LET s == resultHandler(Cur, sid, cb.result, cb.error, ok)
                   ended == cb.error # None \/ tasks[sid].state = "canceled"
               IN  Becomes([ s EXCEPT !.tasks[sid].state = IF ended THEN "done" ELSE @ ],
                           "recognitionCallback", cb, ok)

\* the run loop fires a scheduled timer whose fire date has passed
TimerFired(env) ==
  /\ Alive
  /\ \E timer \in scheduled :
       /\ timer.deadline <= now
       /\ \E ok \in RestoreOutcomes(env, isListening /\ StopsOnFinal(timer.options)) :
            Becomes(timerClosure([ Cur EXCEPT !.scheduled = @ \ { timer } ],
                                 timer.options, timer.sid, ok),
                    "timerFired", NoCallback, ok)

\* time passes; a timer that is due fires before more time passes
Tick ==
  /\ Alive
  /\ now + TickMs <= MaxTime
  /\ \A timer \in scheduled : timer.deadline > now
  /\ Becomes([ Cur EXCEPT !.now = @ + TickMs ], "tick", NoCallback, TRUE)

Next ==
  \/ StartRecording(Environment)
  \/ StopRecording(Environment)
  \/ RecognitionCallback(Environment)
  \/ TimerFired(Environment)
  \/ Tick

Spec == Init /\ [][Next]_vars

NextPlain ==
  \/ StartRecording(PlainEnvironment)
  \/ StopRecording(PlainEnvironment)
  \/ RecognitionCallback(PlainEnvironment)
  \/ TimerFired(PlainEnvironment)
  \/ Tick

\* the service in the plain environment
SpecPlain == Init /\ [][NextPlain]_vars

NextStream ==
  \/ StartRecording(StreamEnvironment)
  \/ StopRecording(StreamEnvironment)
  \/ RecognitionCallback(StreamEnvironment)
  \/ TimerFired(StreamEnvironment)
  \/ Tick

\* the service with a stream that may fail with a result in hand
SpecStream == Init /\ [][NextStream]_vars

NextLate ==
  \/ StartRecording(LateEnvironment)
  \/ StopRecording(LateEnvironment)
  \/ RecognitionCallback(LateEnvironment)
  \/ TimerFired(LateEnvironment)
  \/ Tick

\* the service with callbacks in flight when a session is stopped
SpecLate == Init /\ [][NextLate]_vars

\* the audio engine calls the tap with a hardware buffer; the calls of the
\* tap are serial
TapBegin ==
  /\ Alive
  /\ tapInstalled /\ engineRunning
  /\ tapCall = None
  /\ appended < MaxBuffers
  /\ \E buffer \in Buffers :
       Becomes(tapBegin(Cur, buffer), "tapBegin", NoCallback, TRUE)

\* the audio thread runs the next line of the tap call, whatever the main
\* thread has done since the call began
TapCallback ==
  /\ Alive
  /\ tapCall # None
  /\ \E outcome \in ReadOutcomes(CurOnAudioThread) :
       Becomes(tapCallback(CurOnAudioThread, outcome), "tapCallback", NoCallback, TRUE)

\* the main queue runs the oldest block dispatched by the tap callback
DeliverFrame ==
  /\ Alive
  /\ mainQueue # << >>
  /\ Becomes(deliverFrame(Cur), "deliverFrame", NoCallback, TRUE)

NextAudio ==
  \/ StartRecording(AudioEnvironment)
  \/ StopRecording(AudioEnvironment)
  \/ RecognitionCallback(AudioEnvironment)
  \/ TimerFired(AudioEnvironment)
  \/ Tick
  \/ TapBegin
  \/ TapCallback
  \/ DeliverFrame

\* the service with the audio tap and the frames it hands to the main queue
SpecAudio == Init /\ [][NextAudio]_vars

---------------------------------------------------------------------------
(* The useVoice hook *)

\* everything but the state of the hook
serviceVars ==
  << isListening, currentOptions, recognitionRequest, recognitionTask,
     lastResultTimer, lastTranscription, originalAudioCategory,
     originalAudioMode, originalAudioOptions, audioSession, tapInstalled,
     engineRunning, tasks, scheduled, now, events, resultCount, lastPartial,
     crashed, appended, mainQueue, tapCall, staleOptions, call >>

\* const { enablePartialResults = false, ... } = props ?? {}
EnablePartialResults ==
  IF enablePartialResults = None THEN FALSE ELSE enablePartialResults[1]

\* the listeners exist once the effect has run
Subscribed == subscribed # None

\* setAvailable(newAvailable)
HandleAvailabilityChanged ==
  \E newAvailable \in BOOLEAN :
    /\ Subscribed
    /\ available' = newAvailable
    /\ hookCall' = [ op |-> "handleAvailabilityChanged", text |-> None ]
    /\ UNCHANGED << listening, transcript, enablePartialResults, subscribed,
                   everEnabled, finalResults >>
    /\ UNCHANGED serviceVars

\* setListening(newListening)
HandleListeningStateChanged ==
  \E newListening \in BOOLEAN :
    /\ Subscribed
    /\ listening' = newListening
    /\ hookCall' = [ op |-> "handleListeningStateChanged", text |-> None ]
    /\ UNCHANGED << available, transcript, enablePartialResults, subscribed,
                   everEnabled, finalResults >>
    /\ UNCHANGED serviceVars

\* a faulty variant of handlePartialResult that sets the transcript whatever the prop says (C15 must reject it)
HandlePartialResultAlways ==
  \E newPartialResult \in Texts :
    /\ Subscribed
    /\ transcript' = newPartialResult
    /\ hookCall' = [ op |-> "handlePartialResult", text |-> Some(newPartialResult) ]
    /\ UNCHANGED << available, listening, enablePartialResults, subscribed,
                   everEnabled, finalResults >>
    /\ UNCHANGED serviceVars

\* if (!enablePartialResults) return; setTranscript(newPartialResult)
\* enablePartialResults is the value the listener closed over when its render
\* created it (useCallback)
HandlePartialResult ==
  \E newPartialResult \in Texts :
    /\ Subscribed
    /\ transcript' = IF ~ subscribed[1] THEN transcript ELSE newPartialResult
    /\ hookCall' = [ op |-> "handlePartialResult", text |-> Some(newPartialResult) ]
    /\ UNCHANGED << available, listening, enablePartialResults, subscribed,
                   everEnabled, finalResults >>
    /\ UNCHANGED serviceVars

\* setTranscript(newFinalResult)
HandleFinalResult ==
  \E newFinalResult \in Texts :
    /\ Subscribed
    /\ transcript' = newFinalResult
    /\ finalResults' = finalResults \cup { newFinalResult }
    /\ hookCall' = [ op |-> "handleFinalResult", text |-> Some(newFinalResult) ]
    /\ UNCHANGED << available, listening, enablePartialResults, subscribed,
                   everEnabled >>
    /\ UNCHANGED serviceVars

\* setTranscript('')
ResetTranscript ==
  /\ transcript' = << >>
  /\ hookCall' = [ op |-> "resetTranscript", text |-> None ]
  /\ UNCHANGED << available, listening, enablePartialResults, subscribed,
                   everEnabled, finalResults >>
  /\ UNCHANGED serviceVars

\* useVoice(props) runs again: the component re-renders and the prop is read anew
Render ==
  \E enable \in {None, Some(FALSE), Some(TRUE)} :
    /\ enablePartialResults' = enable
    /\ everEnabled' = (everEnabled \/ enable = Some(TRUE))
    /\ hookCall' = [ op |-> "render", text |-> None ]
    /\ UNCHANGED << available, listening, transcript, subscribed, finalResults >>
    /\ UNCHANGED serviceVars

\* the effect runs after the first render, and after a render that changed one
\* of its dependencies (handlePartialResult changes with enablePartialResults):
\* the old listeners are removed and the handlers of the last render are added
RunEffect ==
  /\ subscribed # Some(EnablePartialResults)
  /\ subscribed' = Some(EnablePartialResults)
  /\ hookCall' = [ op |-> "useEffect", text |-> None ]
  /\ UNCHANGED << available, listening, transcript, enablePartialResults,
                   everEnabled, finalResults >>
  /\ UNCHANGED serviceVars

\* the hook is mounted with or without the enablePartialResults prop
InitHook ==
  /\ ServiceConstructed
  /\ \E enable \in {None, Some(FALSE), Some(TRUE)} : HookMounted(enable)

NextHook ==
  \/ Render
  \/ RunEffect
  \/ HandleAvailabilityChanged
  \/ HandleListeningStateChanged
  \/ HandlePartialResult
  \/ HandleFinalResult
  \/ ResetTranscript

\* the hook and the events its listeners receive
SpecHook == InitHook /\ [][NextHook]_vars

---------------------------------------------------------------------------
(* Properties *)

\* the fields of the service and what they refer to (all but the histories)
serviceState ==
  << isListening, currentOptions, recognitionRequest, recognitionTask,
     lastResultTimer, lastTranscription, originalAudioCategory,
     originalAudioMode, originalAudioOptions, audioSession, tapInstalled,
     engineRunning, tasks, scheduled, crashed >>

\* the positions of the events of a type in the last handler's delegate calls
EventsOfType(type) == { i \in DOMAIN events : events[i].type = type }

\* the positions of listeningStateChanged(b)
ListeningEvents(b) ==
  { i \in EventsOfType("listeningStateChanged") : events[i].isListening = b }

ModeIn(options, modes) == options.mode # None /\ options.mode[1] \in modes

\* C1: startRecording while the session is listening changes no field of the
\* service (options, timer, transcript, routing snapshot, recognition task,
\* tap, the listening flag): its only effect is the invalidState error.
C1_StartWhileListeningChangesNothing ==
  [][ (isListening /\ call'.op = "startRecording")
        => /\ UNCHANGED serviceState
           /\ isListening'
           /\ ~ call'.threw
           /\ events' = << ErrorEvent("invalidState") >> ]_vars

\* a start was rejected while a session with an armed timer was running
C1_Witness ==
  /\ call.op = "startRecording"
  /\ call.wasListening
  /\ isListening
  /\ lastResultTimer # None /\ lastResultTimer[1] \in scheduled
  /\ lastTranscription # None
  /\ tapInstalled

\* whether the shared audio session has the configuration held in the
\* snapshot fields of the state before the step (untouched if none was saved)
RoutingRestored ==
  IF originalAudioCategory # None /\ originalAudioMode # None /\ originalAudioOptions # None
  THEN /\ audioSession'.category = originalAudioCategory[1]
       /\ audioSession'.mode = originalAudioMode[1]
       /\ audioSession'.options = originalAudioOptions[1]
  ELSE /\ audioSession'.category = audioSession.category
       /\ audioSession'.mode = audioSession.mode
       /\ audioSession'.options = audioSession.options

\* C2: every step that takes the session from listening to idle leaves no
\* finalization timer pending, the tap removed and the routing as saved at
\* session start. The routing clause is taken for the steps in which the
\* operating system accepts the restoring setCategory call.
C2_IdleLeavesNothingBehind ==
  [][ (isListening /\ ~ isListening')
        => /\ scheduled' = {}
           /\ ~ tapInstalled'
           /\ call'.restoreOk => RoutingRestored ]_vars

\* C3: a startRecording that throws has rolled back what it acquired: not
\* listening, no tap, no recognition task held or running, the routing as it
\* was before the call and the snapshot discarded.
C3_FailedStartRollsBack ==
  [][ (call'.op = "startRecording" /\ call'.threw)
        => /\ ~ isListening'
           /\ ~ tapInstalled'
           /\ recognitionTask' = None
           /\ \A sid \in DOMAIN tasks' : tasks'[sid].state # "running"
           /\ audioSession'.category = audioSession.category
           /\ audioSession'.mode = audioSession.mode
           /\ audioSession'.options = audioSession.options
           /\ originalAudioCategory' = None
           /\ originalAudioMode' = None
           /\ originalAudioOptions' = None ]_vars

\* C4: a result event is emitted only by a timer of the task whose partial
\* result was the last one, and only when at least that task's
\* silenceTimeoutMs has passed since this last partial result.
C4_NoFinalBeforeSilence ==
  call.op = "timerFired" =>
    \A i \in EventsOfType("result") :
      /\ lastPartial # None
      /\ lastPartial[1].sid = events[i].sid
      /\ now - lastPartial[1].at >= SilenceTimeoutMs(tasks[events[i].sid].options)

\* a final result was emitted for a partial result that arrived after time
\* had passed in the session, once its silence timeout had elapsed
C4_Witness ==
  /\ call.op = "timerFired"
  /\ EventsOfType("result") # {}
  /\ lastPartial # None
  /\ lastPartial[1].at > 0
  /\ now = lastPartial[1].at + SilenceTimeoutMs(tasks[lastPartial[1].sid].options)

\* C5: a session started with mode single or continuous-and-stop emits at
\* most one result event over its whole life.
C5_OneFinalPerStoppingSession ==
  \A sid \in DOMAIN tasks :
    ModeIn(tasks[sid].options, {"single", "continuous-and-stop"})
      => resultCount[sid] <= 1

\* C6: when the timer of a session started without a mode fires while that
\* session is the current one, the result is emitted and the session is
\* stopped.
C6_NoModeStopsLikeSingle ==
  ( /\ call.op = "timerFired"
    /\ call.wasListening
    /\ \E i \in EventsOfType("result") :
         /\ tasks[events[i].sid].options.mode = None
         /\ recognitionTask \in { None, Some(events[i].sid) } )
  => ~ isListening

\* C7: a session started with mode continuous stops listening only in a
\* stopRecording call or in a recognition callback that carries an error.
C7_ContinuousLeavesOnlyByStopOrError ==
  [][ (isListening /\ currentOptions.mode = Some("continuous") /\ ~ isListening')
        => \/ call'.op = "stopRecording"
           \/ call'.op = "recognitionCallback" /\ call'.cb.error # None ]_vars

\* C8: when a timer firing stops the session, exactly one result event is
\* emitted and it comes before listeningStateChanged(false).
C8_ResultBeforeListeningFalse ==
  (call.op = "timerFired" /\ call.wasListening /\ ~ isListening)
  => /\ Cardinality(EventsOfType("result")) = 1
     /\ \A i \in EventsOfType("result"), j \in ListeningEvents(FALSE) : i < j

\* C9: stopRecording while the session is idle changes no field of the
\* service and makes no delegate call other than the invalidState error.
C9_StopWhileIdleChangesNothing ==
  [][ (~ isListening /\ call'.op = "stopRecording")
        => /\ UNCHANGED serviceState
           /\ ~ isListening'
           /\ events' = << ErrorEvent("invalidState") >> ]_vars

\* stopRecording was called on an idle service
C9_Witness ==
  /\ call.op = "stopRecording"
  /\ ~ call.wasListening
  /\ ~ isListening
  /\ events = << ErrorEvent("invalidState") >>

\* the teardown shared by stopRecording and handleError has been done
TornDown ==
  /\ ~ isListening'
  /\ ~ tapInstalled'
  /\ ~ engineRunning'
  /\ recognitionRequest' = None
  /\ recognitionTask' = None
  /\ currentOptions' = EmptyOptions
  /\ originalAudioCategory' = None
  /\ originalAudioMode' = None
  /\ originalAudioOptions' = None

NoErrorEvent == \A i \in DOMAIN events' : events'[i].type # "error"

NoSpeechDelivered ==
  isListening /\ call'.op = "recognitionCallback" /\ call'.cb.error = Some(NoSpeechError)

\* C10 as stated: a "no speech detected" error reported to a listening
\* session leaves it idle and torn down, the routing restored, and no error
\* event emitted.
C10_NoSpeechRestoresRouting ==
  [][ NoSpeechDelivered => TornDown /\ NoErrorEvent /\ RoutingRestored ]_vars

\* C10 as amended: the same, the routing being restored when the restoring
\* setCategory call succeeds and left as it is when that call throws.
C10_NoSpeechIsSilentTeardown ==
  [][ NoSpeechDelivered
        => /\ TornDown
           /\ NoErrorEvent
           /\ IF call'.restoreOk THEN RoutingRestored
              ELSE /\ audioSession'.category = audioSession.category
                   /\ audioSession'.mode = audioSession.mode
                   /\ audioSession'.options = audioSession.options ]_vars

\* a listening session received "no speech detected" and its original
\* routing was put back
C10_Witness ==
  /\ call.op = "recognitionCallback"
  /\ call.wasListening
  /\ call.cb.error = Some(NoSpeechError)
  /\ call.restoreOk
  /\ ~ isListening
  /\ audioSession.category = "soloAmbient"
  /\ ListeningEvents(FALSE) # {}

\* a recognition callback hands an error other than "no speech detected" to a
\* listening session
StreamErrorDelivered ==
  isListening /\ call'.op = "recognitionCallback" /\ call'.cb.error = Some(OtherError)

\* the positions of the error events among the delegate calls of the step
ErrorEventsOfStep == { i \in DOMAIN events' : events'[i].type = "error" }

\* C11: a recognition callback that hands an error other than "no speech
\* detected" to a listening session emits exactly one error event and leaves
\* the session idle, and nothing it leaves behind emits another one: a timer
\* of the task that reported the error emits no error event when it fires.
\* (In SpecStream a task is done only by reporting an error, and a timer of
\* it that is still pending was armed by the callback that carried the
\* error together with a result.)
C11_OneErrorPerStreamFailure ==
  [][ /\ StreamErrorDelivered
           => Cardinality(ErrorEventsOfStep) = 1 /\ ~ isListening'
      /\ ( /\ call'.op = "timerFired"
           /\ \E timer \in scheduled \ scheduled' : tasks[timer.sid].state = "done" )
           => ErrorEventsOfStep = {} ]_vars

\* a callback of a task that was cancelled when its session ended, or a
\* timer firing, reaches the service while it is idle
LateDelivery ==
  /\ ~ isListening
  /\ \/ /\ call'.op = "recognitionCallback"
        /\ \E sid \in DOMAIN tasks :
             tasks[sid].state = "canceled" /\ tasks'[sid].state = "done"
     \/ call'.op = "timerFired"

\* C12: a recognition callback of a cancelled task or a timer firing that
\* reaches the idle service is discarded: it makes no delegate call, arms no
\* timer and leaves the listening flag, the options, the recognition request
\* and task, the routing and its snapshot, the tap and the engine as they are.
C12_LateDeliveriesAreDiscarded ==
  [][ LateDelivery
        => /\ events' = << >>
           /\ scheduled' \subseteq scheduled
           /\ UNCHANGED << isListening, currentOptions, recognitionRequest,
                           recognitionTask, originalAudioCategory, originalAudioMode,
                           originalAudioOptions, audioSession, tapInstalled,
                           engineRunning >> ]_vars

\* the audio thread runs a line of a tap call that began in a session started
\* without frame observation
TapOfUnobservedSession ==
  /\ call'.op = "tapCallback"
  /\ tapCall # None
  /\ ~ EnablesAudioBuffer(tasks[tapCall[1].sid].options)

\* C13: in a session started without frame observation every buffer handed
\* to the tap is appended to the recognition request and none is dispatched
\* for delivery, and no audioBuffer event ever carries a frame of such a
\* session.
C13_UnobservedSessionFeedsRecognitionOnly ==
  [][ /\ TapOfUnobservedSession /\ tapCall[1].pc = "append"
           => appended' = appended + 1
      /\ TapOfUnobservedSession => mainQueue' = mainQueue
      /\ \A i \in DOMAIN events' :
           events'[i].type = "audioBuffer"
             => EnablesAudioBuffer(tasks[events'[i].sid].options) ]_vars

\* the amplitudes 1.0 and -1.0, in tenths
FullScale == AmplitudeScale
NegativeFullScale == 0 - AmplitudeScale

\* C14: in every frame handed to the delegate, a sample converted from the
\* amplitude 1.0 or more (1.2) is 32767, one converted from -1.0 or less is
\* -32768, one converted from 0.0 is 0, and every sample lies in the signed
\* 16-bit range.
C14_PcmEndpoints ==
  \A i \in EventsOfType("audioBuffer") :
    \A k \in DOMAIN events[i].samples :
      LET floatSample == events[i].buffer[k]
          sample == events[i].samples[k]
      IN  /\ floatSample >= FullScale => sample = Int16Max
          /\ floatSample <= NegativeFullScale => sample = Int16Min
          /\ floatSample = 0 => sample = 0
          /\ sample \in Int16Min .. Int16Max

\* C15 as stated: in the hook, a partial-result event changes the transcript
\* only when enablePartialResults is true (absent counts as false) and then
\* sets it to the partial text; a result event always sets it to the final
\* text; so with enablePartialResults false the transcript is always the text
\* of a result event received so far or the empty string.
C15_TranscriptFollowsFinalResults ==
  [][ /\ hookCall'.op = "handlePartialResult" /\ transcript' # transcript
           => EnablePartialResults /\ transcript' = hookCall'.text[1]
      /\ hookCall'.op = "handleFinalResult" => transcript' = hookCall'.text[1]
      /\ ~ EnablePartialResults' => transcript' \in finalResults' \cup { << >> } ]_vars

\* C15, amended: a partial-result event changes the transcript only when the
\* handler that is subscribed was created by a render with
\* enablePartialResults true, and then sets it to the partial text; a result
\* event always sets it to the final text; so as long as no render has
\* received enablePartialResults true, the transcript is always the text of a
\* result event received so far or the empty string.
C15_TranscriptFollowsSubscribedHandler ==
  [][ /\ hookCall'.op = "handlePartialResult"
           => transcript' = IF subscribed = Some(TRUE) THEN hookCall'.text[1]
                            ELSE transcript
      /\ hookCall'.op = "handleFinalResult" => transcript' = hookCall'.text[1]
      /\ ~ everEnabled' => transcript' \in finalResults' \cup { << >> } ]_vars

\* a hook that was never rendered with enablePartialResults true has just
\* received a partial result and still shows the text of an earlier result event
C15_Witness ==
  /\ ~ everEnabled
  /\ subscribed = Some(FALSE)
  /\ hookCall = [ op |-> "handlePartialResult", text |-> Some(<< 104 >>) ]
  /\ transcript = << 104, 101, 108, 108, 111 >>
  /\ finalResults = { << 104, 101, 108, 108, 111 >> }

\* the recognizer hands an empty or whitespace-only text to a listening session
BlankPartialDelivered ==
  /\ isListening
  /\ call'.op = "recognitionCallback"
  /\ call'.cb.error = None
  /\ call'.cb.result # None /\ IsBlank(call'.cb.result)

\* C16: a whitespace-only partial makes no delegate call and leaves the
\* timer as it is, and it does not replace the text kept for the final
\* result: no result event carries a whitespace-only text.
C16_BlankPartialIsIgnored ==
  [][ /\ BlankPartialDelivered
           => /\ events' = << >>
              /\ scheduled' = scheduled
              /\ lastResultTimer' = lastResultTimer
      /\ \A i \in DOMAIN events' :
           events'[i].type = "result" => ~ IsBlank(Some(events'[i].text)) ]_vars

\* C17: after every step at most one timer is pending, and it is the one
\* stored in lastResultTimer (the one the next arming invalidates); a step in
\* which a timer fires takes exactly that timer off the run loop and arms
\* none, so a timer fires at most once.
C17_AtMostOnePendingTimer ==
  [][ /\ Cardinality(scheduled') <= 1
      /\ scheduled' # {} => lastResultTimer' # None /\ scheduled' = { lastResultTimer'[1] }
      /\ call'.op = "timerFired"
           => \E timer \in scheduled : timer.deadline <= now /\ scheduled' = scheduled \ { timer }
    ]_vars

\* in a second session, after the first was stopped by stopRecording, a
\* partial result has armed the timer at a later time than the session
\* start, and this timer is the only one pending
C17_Witness ==
  /\ call.op = "recognitionCallback"
  /\ isListening
  /\ recognitionTask = Some(2)
  /\ tasks[1].state = "canceled"
  /\ now > 0
  /\ \E timer \in scheduled :
       /\ scheduled = { timer }
       /\ timer.sid = 2
       /\ timer.deadline = FireDate(now, tasks[2].options)

\* C18: every step that takes the session from listening to idle (a stop, a
\* timer that stops the session, an error teardown) leaves the stored last
\* transcription none or empty (whitespace only), and a result event is
\* emitted only for the session that is listening when the timer fires.
C18_TranscriptClearedAtSessionEnd ==
  [][ /\ (isListening /\ ~ isListening') => IsBlank(lastTranscription')
      /\ \A i \in DOMAIN events' :
           events'[i].type = "result"
             => isListening /\ recognitionTask = Some(events'[i].sid) ]_vars

\* C19: a step emits listeningStateChanged(true) only when it takes the
\* service from idle to listening and listeningStateChanged(false) only when
\* it takes it from listening to idle, and at most one such event.
C19_ListeningEventsAlternate ==
  [][ \A i \in DOMAIN events' :
        events'[i].type = "listeningStateChanged"
          => /\ events'[i].isListening = isListening'
             /\ isListening # isListening'
             /\ \A j \in DOMAIN events' :
                  events'[j].type = "listeningStateChanged" => j = i ]_vars

\* C20: an audioBuffer event is emitted only while the session whose tap
\* received the frame is the listening one: never after that session has
\* become idle, nor during a later session.
C20_NoFrameAfterIdle ==
  [][ \A i \in DOMAIN events' :
        events'[i].type = "audioBuffer"
          => isListening /\ recognitionTask = Some(events'[i].sid) ]_vars



=============================================================================
